---- MODULE Spec2Model ----
(***************************************************************************)
(* A model of myshell: the read-execute loop (main), the tokenizer         *)
(* (parse_command), the dispatcher (execute_command) with the scoped       *)
(* redirection for dir/echo, and the external executor (execute_external,  *)
(* setup_redirection) with its child processes.                            *)
(*                                                                         *)
(* Text is a sequence of one-character strings.  A file descriptor table   *)
(* maps descriptor numbers to open streams.  stdout is a buffered stdio    *)
(* stream: printf appends to the buffer, and a flush writes the buffer to  *)
(* whatever descriptor 1 refers to at that moment.                         *)
(***************************************************************************)
EXTENDS Integers, Sequences, FiniteSets, TLC

VARIABLES
    pc,          \* position of the parent: "read", "exec", "wait", "check", "done"; "parse"/"parsed" in SpecParse
    line,        \* the line read_command returned last (text)
    cmd,         \* the static Command of parse_command
    result,      \* the value execute_command returned last
    nread,       \* number of lines read so far
    interactive, \* input == stdin (no batch file)
    tty,         \* the original standard output is a terminal (line buffered)
    fds,         \* the parent's descriptor table
    files,       \* path -> content of the file, or NoFile
    buf,         \* text pending in the stdio buffer of stdout
    out,         \* text written to the original standard output stream
    children,    \* pid -> child process record
    pid,         \* the pid fork returned to the parent last
    eof,         \* read_command returned NULL
    ptok,        \* SpecParse: the last result of strtok in parse_command, [tok, next]
    last,        \* record of the last execute_command call (observation only)
    stream       \* the characters of the current input line that fgets has not read yet

vars == <<pc, line, cmd, result, nread, interactive, tty, fds, files, buf, out, children,
          pid, eof, ptok, last, stream>>

(***************************************************************************)
(* Constants of the program.                                               *)
(***************************************************************************)
MAX_LINE == 1024

MAX_ARGS == 64

STDIN_FILENO == 0

STDOUT_FILENO == 1

Success == 0

Failure == -1

ExitRequested == -999

NULL == <<>>

(***************************************************************************)
(* Bounds of the model.                                                    *)
(***************************************************************************)
MaxLineLen == 6

MaxLines == 2

MaxChildren == 2

MaxFd == 7

\* The most tokens of a line built from tokens.
MaxTokens == 4

(***************************************************************************)
(* Text helpers.                                                           *)
(***************************************************************************)
Min(a, b) == IF a < b THEN a ELSE b

RECURSIVE JoinSp(_)
JoinSp(ts) ==
    IF ts = <<>> THEN <<>>
    ELSE IF Len(ts) = 1 THEN ts[1]
    ELSE ts[1] \o <<" ">> \o JoinSp(Tail(ts))

\* n tokens "a", each followed by a space
Words(n) == [i \in 1 .. 2 * n |-> IF i % 2 = 1 THEN "a" ELSE " "]

RECURSIVE SeqsUpTo(_, _)
SeqsUpTo(A, n) ==
    IF n = 0 THEN {<<>>}
    ELSE LET S == SeqsUpTo(A, n - 1) IN S \cup {Append(s, a) : s \in {t \in S : Len(t) = n - 1}, a \in A}

(***************************************************************************)
(* parse_command                                                           *)
(***************************************************************************)
Delims == {" ", "\t"}

LT == <<"<">>

GT == <<">">>

GTGT == <<">", ">">>

AMP == <<"&">>

\* strncpy(line_copy, line, MAX_LINE - 1); line_copy[MAX_LINE - 1] = '\0'
LineCopy(l) == SubSeq(l, 1, Min(Len(l), MAX_LINE - 1))

\* strtok on line_copy, continuing at position pos: [tok, next].  Delimiters are
\* skipped, the token runs up to the next delimiter (which strtok overwrites with
\* '\0'), and the scan continues behind it.  tok is NULL when no token is left.
Strtok(s, pos) ==
    IF \A i \in pos .. Len(s) : s[i] \in Delims
    THEN [tok |-> NULL, next |-> Len(s) + 1]
    ELSE LET b == CHOOSE i \in pos .. Len(s) :
                      s[i] \notin Delims /\ \A k \in pos .. (i - 1) : s[k] \in Delims
             e == CHOOSE j \in b .. Len(s) :
                      (j = Len(s) \/ s[j + 1] \in Delims) /\ \A k \in b .. j : s[k] \notin Delims
         IN  [tok |-> SubSeq(s, b, e), next |-> e + 2]

InitCommand ==
    [args |-> <<>>, argc |-> 0, input_file |-> NULL, output_file |-> NULL,
     append_mode |-> 0, background |-> 0]

\* Mutant: the background flag of the static Command is not reset.
ResetCommandM(c) ==
    [c EXCEPT !.argc = 0, !.input_file = NULL, !.output_file = NULL, !.append_mode = 0]

\* Lines 157-161 on the static Command c of the call before: the fields are reset,
\* the entries of args are left as they are.
ResetCommand(c) ==
    [c EXCEPT !.argc = 0, !.input_file = NULL, !.output_file = NULL,
              !.append_mode = 0, !.background = 0]

\* cmd.args[cmd.argc++] = token: the entry is overwritten when args holds one there.
OrdinaryToken(c, t) ==
    [c EXCEPT !.args = IF c.argc < Len(c.args) THEN [c.args EXCEPT ![c.argc + 1] = t]
                       ELSE Append(c.args, t),
              !.argc = c.argc + 1]

\* cmd.args[cmd.argc] = NULL: the vector ends at argc.
Terminate(c) == [c EXCEPT !.args = SubSeq(c.args, 1, c.argc)]

\* Mutant: the test for "&" never matches, so "&" is taken for an argument.
IsBackgroundMarkerM(t) == FALSE

\* strcmp(token, "&") == 0
IsBackgroundMarker(t) == t = AMP

\* Mutant: the loop does not test the number of arguments.
LoopCondM(tk, c) == tk.tok # NULL

\* while (token != NULL && cmd.argc < MAX_ARGS - 1); tk is the last result of strtok
LoopCond(tk, c) == tk.tok # NULL /\ c.argc < MAX_ARGS - 1

\* One turn of the while loop of parse_command, the strtok at its end included: [tk, c]
ParseIter(s, tk, c) ==
    LET t == tk.tok
        n == Strtok(s, tk.next)
    IN  IF t = LT THEN
            [tk |-> Strtok(s, n.next),
             c |-> IF n.tok # NULL THEN [c EXCEPT !.input_file = n.tok] ELSE c]
        ELSE IF t = GT THEN
            [tk |-> Strtok(s, n.next),
             c |-> IF n.tok # NULL THEN [c EXCEPT !.output_file = n.tok, !.append_mode = 0] ELSE c]
        ELSE IF t = GTGT THEN
            [tk |-> Strtok(s, n.next),
             c |-> IF n.tok # NULL THEN [c EXCEPT !.output_file = n.tok, !.append_mode = 1] ELSE c]
        ELSE IF IsBackgroundMarker(t) THEN
            [tk |-> n, c |-> [c EXCEPT !.background = 1]]
        ELSE
            [tk |-> n, c |-> OrdinaryToken(c, t)]

RECURSIVE ParseLoop(_, _, _)
ParseLoop(s, tk, c) ==
    IF ~LoopCond(tk, c) THEN c
    ELSE LET r == ParseIter(s, tk, c) IN ParseLoop(s, r.tk, r.c)

\* The static Command after parse_command(line), c0 being the static Command as the
\* call before left it; parse_command returns NULL when argc = 0.
parse_command(c0, l) ==
    Terminate(ParseLoop(LineCopy(l), Strtok(LineCopy(l), 1), ResetCommand(c0)))

NoToken == [tok |-> NULL, next |-> 1]

ParseReturnsNull(c) == c.argc = 0

(***************************************************************************)
(* SpecParse: parse_command applied to every line over a small alphabet,   *)
(* and to lines that reach the argument limit.                             *)
(***************************************************************************)
ParseAlphabet == {" ", "<", ">", "&", "a"}

ShortLines == SeqsUpTo(ParseAlphabet, MaxLineLen)

\* Lines of MAX_ARGS - 2 or MAX_ARGS - 1 ordinary tokens followed by a short tail.
LongLines ==
    {Words(n) \o s : n \in {MAX_ARGS - 2, MAX_ARGS - 1},
                                  s \in SeqsUpTo(ParseAlphabet, 3)}

\* Lines of up to MaxTokens tokens, each a control token or one of two words, with
\* single spaces between them.
ParseTokens == {LT, GT, GTGT, AMP, <<"a">>, <<"b">>}

TokenLines == {JoinSp(ts) : ts \in SeqsUpTo(ParseTokens, MaxTokens)}

ParseLines == ShortLines \cup LongLines \cup TokenLines

(***************************************************************************)
(* Words and lines of the scripts the shell is run on.                     *)
(***************************************************************************)
W_cd == <<"c", "d">>

W_clr == <<"c", "l", "r">>

W_quit == <<"q", "u", "i", "t">>

W_pause == <<"p", "a", "u", "s", "e">>

W_dir == <<"d", "i", "r">>

W_echo == <<"e", "c", "h", "o">>

W_environ == <<"e", "n", "v", "i", "r", "o", "n">>

W_help == <<"h", "e", "l", "p">>

W_hello == <<"h", "e", "l", "l", "o">>

W_world == <<"w", "o", "r", "l", "d">>

W_prog == <<"p", "r", "o", "g">>

W_nosuch == <<"n", "o", "s", "u", "c", "h">>

F_TXT == <<"f", ".", "t", "x", "t">>

IN_TXT == <<"i", "n", ".", "t", "x", "t">>

NL == <<"\n">>

\* The programs execvp finds; any other name makes execvp fail.
Programs == {W_prog}

Paths == {F_TXT, IN_TXT}

ScriptLines ==
    { <<>>,
      <<" ", "\t">>,
      <<"#", " ", "x">>,
      JoinSp(<<W_echo, W_hello, GT, F_TXT>>),
      JoinSp(<<W_echo, W_world, GTGT, F_TXT>>),
      JoinSp(<<W_echo, W_hello, W_world>>),
      JoinSp(<<W_dir, GT, F_TXT>>),
      JoinSp(<<W_dir>>),
      JoinSp(<<W_quit>>),
      JoinSp(<<W_quit, W_hello, GT, F_TXT, AMP>>),
      JoinSp(<<W_cd, GT, F_TXT>>),
      JoinSp(<<W_clr, GTGT, F_TXT>>),
      JoinSp(<<W_pause, LT, IN_TXT>>),
      JoinSp(<<W_environ, GT, F_TXT>>),
      JoinSp(<<W_help, LT, IN_TXT, GT, F_TXT>>),
      JoinSp(<<W_prog>>),
      JoinSp(<<W_prog, LT, IN_TXT, GT, F_TXT, AMP>>),
      JoinSp(<<W_prog, LT, F_TXT, GT, F_TXT>>),
      JoinSp(<<W_nosuch>>),
      JoinSp(<<W_nosuch, AMP>>),
      JoinSp(<<GT, F_TXT>>),
      AMP }

(***************************************************************************)
(* Descriptors, files and the stdio buffer of stdout.  A process state st  *)
(* is [fds, files, buf, out].                                              *)
(***************************************************************************)
FdRange == 0 .. (MaxFd - 1)

Closed == [kind |-> "closed", path |-> <<>>]

Stream(k) == [kind |-> k, path |-> <<>>]

FileStream(p) == [kind |-> "file", path |-> p]

NoFile == [exists |-> FALSE, data |-> <<>>]

Range(s) == {s[i] : i \in 1 .. Len(s)}

\* The descriptor dup and open return: the lowest one not in use, -1 when none is left.
LowestFree(f) ==
    IF \E d \in FdRange : f[d] = Closed
    THEN CHOOSE d \in FdRange : f[d] = Closed /\ \A d2 \in FdRange : f[d2] = Closed => d <= d2
    ELSE -1

\* write(fd, text, n)
SysWrite(st, fd, text) ==
    LET s == st.fds[fd]
    IN  IF s.kind = "stdout" THEN [st EXCEPT !.out = @ \o text]
        ELSE IF s.kind = "file" THEN [st EXCEPT !.files[s.path].data = @ \o text]
        ELSE st

\* fflush(stdout): the pending text goes to what descriptor 1 refers to now.
Fflush(st) == [SysWrite(st, STDOUT_FILENO, st.buf) EXCEPT !.buf = <<>>]

\* printf(text): buffered; a line-buffered stdout (a terminal) is flushed at a newline.
Printf(st, text) ==
    LET st1 == [st EXCEPT !.buf = @ \o text]
    IN  IF tty /\ "\n" \in Range(text) THEN Fflush(st1) ELSE st1

\* dup(fd), known to succeed
SysDup(st, fd) == [st EXCEPT !.fds[LowestFree(st.fds)] = st.fds[fd]]

\* open(path, O_WRONLY | O_CREAT | (O_APPEND or O_TRUNC), 0644), known to succeed
SysOpenW(st, path, append) ==
    [st EXCEPT !.fds[LowestFree(st.fds)] = FileStream(path),
               !.files[path] = IF append # 0 /\ @.exists THEN @ ELSE [exists |-> TRUE, data |-> <<>>]]

\* open(path, O_RDONLY), known to succeed
SysOpenR(st, path) == [st EXCEPT !.fds[LowestFree(st.fds)] = FileStream(path)]

\* dup2(old, new), known to succeed
SysDup2(st, old, new) == [st EXCEPT !.fds[new] = st.fds[old]]

\* close(fd)
SysClose(st, fd) == [st EXCEPT !.fds[fd] = Closed]

(***************************************************************************)
(* What the environment decides in one call: which system calls fail.      *)
(*   dup, open, dup2: the calls of the redirection of dir/echo             *)
(*   restore: the dup2 that puts the saved descriptor back                 *)
(*   call: the call the built-in itself makes (opendir, getcwd, chdir,     *)
(*         fopen of readme)                                                *)
(* A call that fails ends the sequence, so the choices for the calls after  *)
(* it are not enumerated.                                                  *)
(***************************************************************************)
Env ==
    {e \in [dup : BOOLEAN, open : BOOLEAN, dup2 : BOOLEAN, restore : BOOLEAN, call : BOOLEAN] :
        /\ ~e.dup => e.open /\ e.dup2 /\ e.restore /\ e.call
        /\ ~e.open => e.dup2 /\ e.restore /\ e.call
        /\ ~e.dup2 => e.restore /\ e.call}

EnvSetup ==
    {e \in [openin : BOOLEAN, dup2in : BOOLEAN, open : BOOLEAN, dup2 : BOOLEAN] :
        /\ ~e.openin => e.dup2in /\ e.open /\ e.dup2
        /\ ~e.dup2in => e.open /\ e.dup2
        /\ ~e.open => e.dup2}

(***************************************************************************)
(* Built-in commands.  Each returns [st, rc].                              *)
(***************************************************************************)
CwdText == <<"/", "w">>

ClrText == <<"\\", "c">>

PauseText == <<"?">>

EnvText == <<"s", "=", "m", "\n">>

HelpText == <<"H", "\n">>

ReadmeText == <<"R", "\n">>

\* cmd_cd: without an argument print the directory, otherwise chdir and set PWD.
cmd_cd(st, c, e) ==
    IF c.argc = 1
    THEN IF e.call THEN [st |-> Printf(st, CwdText \o NL), rc |-> 0]
         ELSE [st |-> st, rc |-> -1]
    ELSE IF e.call THEN [st |-> st, rc |-> 0] ELSE [st |-> st, rc |-> -1]

\* cmd_clr: printf of the escape sequence, then fflush(stdout).
cmd_clr(st, c) == [st |-> Fflush(Printf(st, ClrText)), rc |-> 0]

\* Mutant: quit reports success like any other built-in.
cmd_quitM(c) == 0

\* cmd_quit
cmd_quit(c) == -999

\* cmd_pause: the getchar reads standard input, which the model does not hold.
cmd_pause(st, c) == [st |-> Printf(st, PauseText \o NL), rc |-> 0]

\* The names readdir yields except "." and "..": the files that exist.
DirEntries(st) == SelectSeq(<<F_TXT, IN_TXT>>, LAMBDA p : st.files[p].exists)

RECURSIVE DirLoop(_, _)
DirLoop(st, es) ==
    IF es = <<>> THEN st ELSE DirLoop(Printf(st, Head(es) \o NL), Tail(es))

\* cmd_dir: opendir fails -> -1; else one line per entry.
cmd_dir(st, c, e) ==
    IF ~e.call THEN [st |-> st, rc |-> -1]
    ELSE [st |-> DirLoop(st, DirEntries(st)), rc |-> 0]

\* cmd_environ
cmd_environ(st, c) == [st |-> Printf(st, EnvText), rc |-> 0]

\* The for loop of cmd_echo; i is the C index into args.
RECURSIVE EchoLoop(_, _, _)
EchoLoop(st, c, i) ==
    IF i < c.argc
    THEN LET st1 == Printf(st, c.args[i + 1])
             st2 == IF i < c.argc - 1 THEN Printf(st1, <<" ">>) ELSE st1
         IN  EchoLoop(st2, c, i + 1)
    ELSE st

\* cmd_echo
cmd_echo(st, c) == [st |-> Printf(EchoLoop(st, c, 1), NL), rc |-> 0]

\* cmd_help: no readme -> the short help; popen fails -> readme by printf;
\* else `more` writes the readme to the descriptor 1 it inherits.
cmd_help(st, c, e) ==
    IF ~e.call THEN [st |-> Printf(st, HelpText), rc |-> 0]
    ELSE IF ~e.open THEN [st |-> Printf(st, ReadmeText), rc |-> 0]
    ELSE [st |-> SysWrite(st, STDOUT_FILENO, ReadmeText), rc |-> 0]

(***************************************************************************)
(* execute_command, the dir/echo branch.                                   *)
(***************************************************************************)
\* Mutant: the saved descriptor is not closed when the target cannot be opened.
OpenFailedM(st, saved_stdout) == st

\* perror; close(saved_stdout); return -1
OpenFailed(st, saved_stdout) == SysClose(st, saved_stdout)

\* Lines 337-368: [st, saved_stdout, path]; path "go" means the built-in runs next.
RedirectStdout(st, c, e) ==
    IF c.output_file = NULL THEN [st |-> st, saved_stdout |-> -1, path |-> "go"]
    ELSE
    LET saved_stdout == IF e.dup THEN LowestFree(st.fds) ELSE -1
    IN  IF saved_stdout < 0 THEN [st |-> st, saved_stdout |-> -1, path |-> "dup_failed"]
        ELSE
        LET st1 == SysDup(st, STDOUT_FILENO)
            fd_out == IF e.open THEN LowestFree(st1.fds) ELSE -1
        IN  IF fd_out < 0
            THEN [st |-> OpenFailed(st1, saved_stdout), saved_stdout |-> saved_stdout,
                  path |-> "open_failed"]
            ELSE
            LET st2 == SysOpenW(st1, c.output_file, c.append_mode)
            IN  IF ~e.dup2
                THEN [st |-> SysClose(SysClose(st2, fd_out), saved_stdout),
                      saved_stdout |-> saved_stdout, path |-> "dup2_failed"]
                ELSE [st |-> SysClose(SysDup2(st2, fd_out, STDOUT_FILENO), fd_out),
                      saved_stdout |-> saved_stdout, path |-> "go"]

\* Lines 378-381: dup2(saved_stdout, STDOUT_FILENO), its result unchecked; close(saved_stdout).
RestoreStdout(st, saved_stdout, e) ==
    IF saved_stdout >= 0
    THEN SysClose(IF e.restore THEN SysDup2(st, saved_stdout, STDOUT_FILENO) ELSE st, saved_stdout)
    ELSE st

\* Lines 333-383: [st, rc, path, invoked]
ExecDirEcho(st, c, e) ==
    LET r == RedirectStdout(st, c, e)
    IN  IF r.path # "go" THEN [st |-> r.st, rc |-> -1, path |-> r.path, invoked |-> FALSE]
        ELSE
        LET b == IF c.args[1] = W_dir THEN cmd_dir(r.st, c, e) ELSE cmd_echo(r.st, c)
        IN  [st |-> RestoreStdout(b.st, r.saved_stdout, e), rc |-> b.rc,
             path |-> "ran", invoked |-> TRUE]

Builtins == {W_cd, W_clr, W_quit, W_pause, W_dir, W_echo, W_environ, W_help}

IsExternal(c) == c.args[1] \notin Builtins

\* Mutant: environ is taken into the branch that redirects stdout.
HonoursRedirectionM(c) == c.args[1] \in {W_dir, W_echo, W_environ}

\* strcmp(command, "dir") == 0 || strcmp(command, "echo") == 0
HonoursRedirection(c) == c.args[1] = W_dir \/ c.args[1] = W_echo

\* execute_command for a built-in: [st, rc, path, invoked]
ExecBuiltin(st, c, e) ==
    LET plain(b) == [st |-> b.st, rc |-> b.rc, path |-> "plain", invoked |-> TRUE]
    IN  IF c.args[1] = W_cd THEN plain(cmd_cd(st, c, e))
        ELSE IF c.args[1] = W_clr THEN plain(cmd_clr(st, c))
        ELSE IF c.args[1] = W_quit THEN plain([st |-> st, rc |-> cmd_quit(c)])
        ELSE IF c.args[1] = W_pause THEN plain(cmd_pause(st, c))
        ELSE IF HonoursRedirection(c) THEN ExecDirEcho(st, c, e)
        ELSE IF c.args[1] = W_environ THEN plain(cmd_environ(st, c))
        ELSE plain(cmd_help(st, c, e))

(***************************************************************************)
(* setup_redirection and the child of execute_external.                    *)
(***************************************************************************)
Exists(st, p) == p \in Paths /\ st.files[p].exists

\* The input half of setup_redirection: [st, rc]
SetupInput(st, c, e) ==
    IF c.input_file = NULL THEN [st |-> st, rc |-> 0]
    ELSE
    LET fd_in == IF e.openin /\ Exists(st, c.input_file) THEN LowestFree(st.fds) ELSE -1
    IN  IF fd_in < 0 THEN [st |-> st, rc |-> -1]
        ELSE LET st1 == SysOpenR(st, c.input_file)
             IN  IF ~e.dup2in THEN [st |-> SysClose(st1, fd_in), rc |-> -1]
                 ELSE [st |-> SysClose(SysDup2(st1, fd_in, STDIN_FILENO), fd_in), rc |-> 0]

\* The output half of setup_redirection: [st, rc]
SetupOutput(st, c, e) ==
    IF c.output_file = NULL THEN [st |-> st, rc |-> 0]
    ELSE
    LET fd_out == IF e.open THEN LowestFree(st.fds) ELSE -1
    IN  IF fd_out < 0 THEN [st |-> st, rc |-> -1]
        ELSE LET st1 == SysOpenW(st, c.output_file, c.append_mode)
             IN  IF ~e.dup2 THEN [st |-> SysClose(st1, fd_out), rc |-> -1]
                 ELSE [st |-> SysClose(SysDup2(st1, fd_out, STDOUT_FILENO), fd_out), rc |-> 0]

\* Mutant: the output redirection is applied first.
setup_redirectionM(st, c, e) ==
    LET o == SetupOutput(st, c, e)
    IN  IF o.rc < 0 THEN o ELSE SetupInput(o.st, c, e)

\* setup_redirection: input first, then output.
setup_redirection(st, c, e) ==
    LET i == SetupInput(st, c, e)
    IN  IF i.rc < 0 THEN i ELSE SetupOutput(i.st, c, e)

Pids == 1 .. MaxChildren

Live == {"forked", "ready", "running"}

Terminated == {"exited", "signaled"}

\* setup is the outcome of setup_redirection in the child: "none" before the call,
\* "ok" or "failed" after it.
NoChild == [state |-> "none", status |-> 0, c |-> InitCommand,
            fds |-> [d \in FdRange |-> Closed], buf |-> <<>>, setup |-> "none"]

\* Mutant: the result of setup_redirection is not looked at.
SetupFailedM(rc) == FALSE

\* if (setup_redirection(cmd) < 0)
SetupFailed(rc) == rc < 0

\* Mutant: a failed execvp ends the child with status 0.
ExecFailStatusM == 1 - 1

\* exit(1) after perror(cmd->args[0])
ExecFailStatus == 1

\* Mutant: a status is read as success whenever the child exited normally.
InterpretStatusM(ch) == IF ch.state = "exited" THEN 0 ELSE -1

\* Lines 267-281: WIFEXITED, WEXITSTATUS
InterpretStatus(ch) ==
    IF ch.state = "exited"
    THEN IF ch.status # 0 THEN -1 ELSE 0
    ELSE -1

\* Mutant: the wait is for any child, as in waitpid(-1, &status, 0).
WaitTargetM(p) == -1

\* The first argument of waitpid(pid, &status, 0)
WaitTarget(p) == p

\* The children a waitpid(target, ..., 0) can return: terminated ones that match target.
Waitable(target) ==
    {q \in Pids : children[q].state \in Terminated /\ (target = -1 \/ q = target)}

\* Mutant: the background flag is not looked at, every command is waited for.
IsBackgroundM(c) == FALSE

\* if (cmd->background)
IsBackground(c) == c.background # 0

BgText == <<"[", "1", "]", "\n">>

ExitStatuses == {0, 1, 2}

(***************************************************************************)
(* The state of the parent as a process state, and back.                   *)
(***************************************************************************)
St == [fds |-> fds, files |-> files, buf |-> buf, out |-> out]

SetSt(st) == /\ fds' = st.fds
             /\ files' = st.files
             /\ buf' = st.buf
             /\ out' = st.out

ChildSt(p) == [fds |-> children[p].fds, files |-> files, buf |-> children[p].buf, out |-> out]

Prompt == <<"/", "w", ">", " ">>

\* display_prompt: printf of the prompt, fflush(stdout)
display_prompt(st) == Fflush(Printf(st, Prompt))

\* fgets(buffer, MAX_LINE, input) on the unread characters s of the input: it takes the
\* characters up to and with the first newline, MAX_LINE - 1 of them at most, and
\* leaves the others in the stream: [got, rest]
Fgets(s) ==
    LET nl == IF \E i \in 1 .. Len(s) : s[i] = "\n"
              THEN CHOOSE i \in 1 .. Len(s) : s[i] = "\n" /\ \A k \in 1 .. (i - 1) : s[k] # "\n"
              ELSE Len(s)
        n == Min(nl, MAX_LINE - 1)
    IN  [got |-> SubSeq(s, 1, n), rest |-> SubSeq(s, n + 1, Len(s))]

\* read_command after fgets delivered b: a newline at the end is removed.
read_command(b) ==
    IF Len(b) > 0 /\ b[Len(b)] = "\n" THEN SubSeq(b, 1, Len(b) - 1) ELSE b

\* line[0] == '\0' || line[0] == '#'
SkipLine(l) == l = <<>> \/ l[1] = "#"

\* return from main: fclose(batch_file), and exit flushes stdout.
ExitMain(st) ==
    LET st1 == Fflush(st)
    IN  IF interactive THEN st1 ELSE SysClose(st1, 3)

\* Mutant: the loop ends on any result but success.
LoopBreaksM(r) == r # 0

\* if (result == -999) break;
LoopBreaks(r) == r = -999

InitFds ==
    [d \in FdRange |->
        IF d = 0 THEN Stream("stdin")
        ELSE IF d = 1 THEN Stream("stdout")
        ELSE IF d = 2 THEN Stream("stderr")
        ELSE IF d = 3 /\ ~interactive THEN Stream("batch")
        ELSE Closed]

\* The record of a call of execute_command that begins now: fds0 is the descriptor
\* table at the call, before and beforeRc are the exit path and the result of the call
\* before it.
NoCall == [kind |-> "none", path |-> "", invoked |-> FALSE, fds0 |-> fds,
           spawned |-> FALSE, waited |-> FALSE, term |-> "none", status |-> 0, child |-> 0,
           before |-> last.path, beforeRc |-> result]

FirstCall == [kind |-> "none", path |-> "", invoked |-> FALSE, fds0 |-> InitFds,
              spawned |-> FALSE, waited |-> FALSE, term |-> "none", status |-> 0, child |-> 0,
              before |-> "", beforeRc |-> 0]

(***************************************************************************)
(* Actions of the parent.                                                  *)
(***************************************************************************)
\* One turn of the loop of main up to the call of execute_command (lines 51-73), the
\* input holding lines of L.
ReadCommandFrom(L) ==
    /\ pc = "read"
    /\ \E raw \in IF stream # <<>> THEN {stream} ELSE {l \o NL : l \in L} \cup {<<>>} :
         LET st1 == IF interactive THEN display_prompt(St) ELSE St
         IN  IF raw = <<>>
             THEN \* fgets returns NULL: end of input
                  /\ eof' = TRUE
                  /\ pc' = "done"
                  /\ SetSt(ExitMain(st1))
                  /\ UNCHANGED <<line, cmd, nread, stream>>
             ELSE /\ stream = <<>> => nread < MaxLines
                  /\ nread' = nread + 1
                  /\ line' = read_command(Fgets(raw).got)
                  /\ stream' = Fgets(raw).rest
                  /\ SetSt(st1)
                  /\ eof' = FALSE
                  /\ IF SkipLine(line')
                     THEN pc' = "read" /\ cmd' = cmd
                     ELSE /\ cmd' = parse_command(cmd, line')
                          /\ pc' = IF ParseReturnsNull(cmd') THEN "read" ELSE "exec"
    /\ UNCHANGED <<result, interactive, tty, children, pid, ptok, last>>

ReadCommand == ReadCommandFrom(ScriptLines)

\* execute_command on a built-in (lines 310-387, 393).
ExecuteBuiltin ==
    /\ pc = "exec"
    /\ ~IsExternal(cmd)
    /\ \E e \in Env :
         LET r == ExecBuiltin(St, cmd, e)
         IN  /\ SetSt(r.st)
             /\ result' = r.rc
             /\ last' = [NoCall EXCEPT !.kind = "builtin", !.path = r.path, !.invoked = r.invoked]
    /\ pc' = "check"
    /\ UNCHANGED <<line, cmd, nread, interactive, tty, children, pid, eof, ptok, stream>>

\* Mutant: a failed fork is reported as success.
SpawnFailedResultM == Success

\* perror("fork"); return -1
SpawnFailedResult == Failure

\* execute_external up to the wait (lines 228-258, 281): fork, and the return for a
\* background command.  fork fails when the environment says so or no process is left.
Fork ==
    /\ pc = "exec"
    /\ IsExternal(cmd)
    /\ \E ok \in BOOLEAN :
         LET free == {p \in Pids : children[p].state = "none"}
         IN  IF ~ok \/ free = {}
             THEN /\ result' = SpawnFailedResult
                  /\ pc' = "check"
                  /\ last' = [NoCall EXCEPT !.kind = "external", !.path = "fork_failed"]
                  /\ UNCHANGED <<children, pid, fds, files, buf, out>>
             ELSE LET p == CHOOSE q \in free : \A q2 \in free : q <= q2
                  IN  /\ children' = [children EXCEPT ![p] =
                                         [state |-> "forked", status |-> 0, c |-> cmd,
                                          fds |-> fds, buf |-> buf, setup |-> "none"]]
                      /\ pid' = p
                      /\ IF IsBackground(cmd)
                         THEN /\ SetSt(Printf(St, BgText))
                              /\ result' = 0
                              /\ pc' = "check"
                              /\ last' = [NoCall EXCEPT !.kind = "external", !.path = "background",
                                                        !.spawned = TRUE, !.child = p]
                         ELSE /\ pc' = "wait"
                              /\ last' = [NoCall EXCEPT !.kind = "external", !.path = "waiting",
                                                        !.spawned = TRUE, !.child = p]
                              /\ UNCHANGED <<result, fds, files, buf, out>>
    /\ UNCHANGED <<line, cmd, nread, interactive, tty, eof, ptok, stream>>

\* The waitpid of execute_external returns (lines 261-281).  It fails only with ECHILD
\* (the child was reaped for a SIGCHLD that is ignored), which is reported once the
\* child is gone; no handler is installed, so the call is never interrupted.
WaitChild ==
    /\ pc = "wait"
    /\ \E q \in Waitable(WaitTarget(pid)), ok \in BOOLEAN :
         /\ result' = IF ok THEN InterpretStatus(children[q]) ELSE -1
         /\ children' = [children EXCEPT ![q] = NoChild]
         /\ last' = [last EXCEPT !.path = IF ok THEN "waited" ELSE "wait_failed",
                                 !.waited = TRUE, !.term = children[q].state,
                                 !.status = children[q].status, !.child = q]
    /\ pc' = "check"
    /\ UNCHANGED <<line, cmd, nread, interactive, tty, fds, files, buf, out, pid, eof, ptok, stream>>

\* The test of the result in main (lines 79-85), and the return from main.
CheckResult ==
    /\ pc = "check"
    /\ IF LoopBreaks(result)
       THEN pc' = "done" /\ SetSt(ExitMain(St))
       ELSE pc' = "read" /\ UNCHANGED <<fds, files, buf, out>>
    /\ UNCHANGED <<line, cmd, result, nread, interactive, tty, children, pid, eof, ptok, last, stream>>

(***************************************************************************)
(* Actions of a child (lines 239-253 of execute_external).                 *)
(***************************************************************************)
\* exit(status) in a child that still runs the shell's image: its copy of the stdio
\* buffer is flushed to its own descriptor 1.
ChildExits(p, st, status) ==
    LET st1 == Fflush(st)
    IN  /\ children' = [children EXCEPT ![p] =
                           [NoChild EXCEPT !.state = "exited", !.status = status,
                                           !.setup = IF children[p].state = "forked"
                                                     THEN "failed" ELSE children[p].setup]]
        /\ files' = st1.files
        /\ out' = st1.out

\* setup_redirection in the child; exit(1) when it fails.
ChildSetup(p) ==
    /\ children[p].state = "forked"
    /\ \E e \in EnvSetup :
         LET r == setup_redirection(ChildSt(p), children[p].c, e)
         IN  IF SetupFailed(r.rc)
             THEN ChildExits(p, r.st, 1)
             ELSE /\ children' = [children EXCEPT ![p].state = "ready", ![p].fds = r.st.fds,
                                                  ![p].setup = IF r.rc < 0 THEN "failed" ELSE "ok"]
                  /\ files' = r.st.files
                  /\ UNCHANGED out
    /\ UNCHANGED <<pc, line, cmd, result, nread, interactive, tty, fds, buf, pid, eof, ptok, last, stream>>

\* execvp in the child: the image is replaced, or perror and exit(1).
ChildExec(p) ==
    /\ children[p].state = "ready"
    /\ IF children[p].c.args[1] \in Programs
       THEN /\ children' = [children EXCEPT ![p].state = "running", ![p].buf = <<>>]
            /\ UNCHANGED <<files, out>>
       ELSE ChildExits(p, ChildSt(p), ExecFailStatus)
    /\ UNCHANGED <<pc, line, cmd, result, nread, interactive, tty, fds, buf, pid, eof, ptok, last, stream>>

\* The program the child became exits.
ChildExit(p) ==
    /\ children[p].state = "running"
    /\ \E s \in ExitStatuses :
         children' = [children EXCEPT ![p] = [NoChild EXCEPT !.state = "exited", !.status = s]]
    /\ UNCHANGED <<pc, line, cmd, result, nread, interactive, tty, fds, files, buf, out, pid, eof, ptok,
                   last, stream>>

\* A signal kills the child.
ChildKilled(p) ==
    /\ children[p].state \in Live
    /\ children' = [children EXCEPT ![p] = [NoChild EXCEPT !.state = "signaled"]]
    /\ UNCHANGED <<pc, line, cmd, result, nread, interactive, tty, fds, files, buf, out, pid, eof, ptok,
                   last, stream>>

(***************************************************************************)
(* The shell.                                                              *)
(***************************************************************************)
Init ==
    /\ pc = "read"
    /\ line = <<>>
    /\ cmd = InitCommand
    /\ result = 0
    /\ nread = 0
    /\ interactive \in BOOLEAN
    /\ tty \in BOOLEAN
    /\ fds = InitFds
    /\ files = [p \in Paths |-> IF p = IN_TXT THEN [exists |-> TRUE, data |-> <<>>] ELSE NoFile]
    /\ buf = <<>>
    /\ out = <<>>
    /\ children = [p \in Pids |-> NoChild]
    /\ pid = 0
    /\ eof = FALSE
    /\ ptok = NoToken
    /\ last = FirstCall
    /\ stream = <<>>

Next ==
    \/ ReadCommand
    \/ ExecuteBuiltin
    \/ Fork
    \/ WaitChild
    \/ CheckResult
    \/ \E p \in Pids : ChildSetup(p)
    \/ \E p \in Pids : ChildExec(p)
    \/ \E p \in Pids : ChildExit(p)
    \/ \E p \in Pids : ChildKilled(p)

Spec == Init /\ [][Next]_vars

(***************************************************************************)
(* SpecExternal: the shell on input that holds external commands only.     *)
(* waitpid returns once the child it waits for has terminated.             *)
(***************************************************************************)
ExternalLines ==
    { JoinSp(<<W_prog>>),
      JoinSp(<<W_prog, LT, IN_TXT, GT, F_TXT, AMP>>),
      JoinSp(<<W_prog, LT, F_TXT, GT, F_TXT>>),
      JoinSp(<<W_nosuch>>),
      JoinSp(<<W_nosuch, AMP>>) }

ReadExternal == ReadCommandFrom(ExternalLines)

NextExternal ==
    \/ ReadExternal
    \/ Fork
    \/ WaitChild
    \/ CheckResult
    \/ \E p \in Pids : ChildSetup(p)
    \/ \E p \in Pids : ChildExec(p)
    \/ \E p \in Pids : ChildExit(p)
    \/ \E p \in Pids : ChildKilled(p)

SpecExternal == Init /\ [][NextExternal]_vars /\ WF_vars(WaitChild)

(***************************************************************************)
(* SpecLong: the shell on input with lines of MAX_LINE - 1 characters and  *)
(* more, all of them built-in commands or comments.                        *)
(***************************************************************************)
\* pre, spaces up to MAX_LINE - 1 characters, then post.
PadLine(pre, post) ==
    [i \in 1 .. (MAX_LINE - 1) |-> IF i <= Len(pre) THEN pre[i] ELSE " "] \o post

LongInputLines ==
    { PadLine(W_echo, W_quit),
      PadLine(<<"#">>, JoinSp(<<W_echo, W_hello>>)),
      PadLine(JoinSp(<<W_echo, W_hello>>), <<>>),
      JoinSp(<<W_echo, W_hello>>),
      JoinSp(<<W_dir>>),
      JoinSp(<<W_quit>>),
      <<"#", " ", "x">>,
      <<" ", "\t">> }

ReadLong == ReadCommandFrom(LongInputLines)

NextLong == ReadLong \/ ExecuteBuiltin \/ CheckResult

SpecLong == Init /\ [][NextLong]_vars

(***************************************************************************)
(* SpecParse: parse_command on its own.                                    *)
(***************************************************************************)
InitParse ==
    /\ pc = "parse_begin"
    /\ line \in ParseLines
    /\ cmd = InitCommand
    /\ result = 0
    /\ nread = 0
    /\ interactive = FALSE
    /\ tty = FALSE
    /\ fds = InitFds
    /\ files = [p \in Paths |-> NoFile]
    /\ buf = <<>>
    /\ out = <<>>
    /\ children = [p \in Pids |-> NoChild]
    /\ pid = 0
    /\ eof = FALSE
    /\ ptok = NoToken
    /\ last = FirstCall
    /\ stream = <<>>

ParseFrame ==
    <<line, result, nread, interactive, tty, fds, files, buf, out, children, pid, eof, last, stream>>

\* Lines 156-168: the Command is reset and the first token taken.
ParseBegin ==
    /\ pc = "parse_begin"
    /\ cmd' = ResetCommand(cmd)
    /\ ptok' = Strtok(LineCopy(line), 1)
    /\ pc' = "parse"
    /\ UNCHANGED ParseFrame

\* One turn of the while loop (lines 170-201).
ParseStep ==
    /\ pc = "parse"
    /\ LoopCond(ptok, cmd)
    /\ LET r == ParseIter(LineCopy(line), ptok, cmd)
       IN  cmd' = r.c /\ ptok' = r.tk
    /\ pc' = "parse"
    /\ UNCHANGED ParseFrame

\* The loop ends (lines 203-211).
ParseEnd ==
    /\ pc = "parse"
    /\ ~LoopCond(ptok, cmd)
    /\ pc' = "parsed"
    /\ cmd' = Terminate(cmd)
    /\ UNCHANGED ptok
    /\ UNCHANGED ParseFrame

NextParse == ParseBegin \/ ParseStep \/ ParseEnd

SpecParse == InitParse /\ [][NextParse]_vars

(***************************************************************************)
(* SpecReparse: parse_command called on one line after another, the static *)
(* Command and the static copy of the line carried from call to call.      *)
(***************************************************************************)
ReparseLines == {JoinSp(ts) : ts \in SeqsUpTo(ParseTokens, MaxTokens - 1)}

InitReparse ==
    /\ pc = "parse_begin"
    /\ line \in ReparseLines
    /\ cmd = InitCommand
    /\ result = 0
    /\ nread = 0
    /\ interactive = FALSE
    /\ tty = FALSE
    /\ fds = InitFds
    /\ files = [p \in Paths |-> NoFile]
    /\ buf = <<>>
    /\ out = <<>>
    /\ children = [p \in Pids |-> NoChild]
    /\ pid = 0
    /\ eof = FALSE
    /\ ptok = NoToken
    /\ last = FirstCall
    /\ stream = <<>>

\* The next call of parse_command, on another line (main, line 70).
ParseAgain ==
    /\ pc = "parsed"
    /\ nread < MaxLines
    /\ nread' = nread + 1
    /\ line' \in ReparseLines
    /\ pc' = "parse_begin"
    /\ UNCHANGED <<cmd, ptok, result, interactive, tty, fds, files, buf, out, children, pid, eof, last,
                   stream>>

NextReparse == ParseBegin \/ ParseStep \/ ParseEnd \/ ParseAgain

SpecReparse == InitReparse /\ [][NextReparse]_vars

(***************************************************************************)
(* What a call of execute_command is about.                                *)
(***************************************************************************)
IsDirEcho(c) == c.args[1] = W_dir \/ c.args[1] = W_echo

\* The text echo is to write: its arguments joined by single spaces, and a newline.
EchoText(c) == JoinSp(Tail(c.args)) \o NL

\* The text dir is to write: one line per entry.
RECURSIVE Lines(_)
Lines(es) == IF es = <<>> THEN <<>> ELSE Head(es) \o NL \o Lines(Tail(es))

\* The content of what descriptor 1 refers to in table f.
Sink(f, fl, o) ==
    IF f[STDOUT_FILENO].kind = "stdout" THEN o
    ELSE IF f[STDOUT_FILENO].kind = "file" THEN fl[f[STDOUT_FILENO].path].data
    ELSE <<>>

\* The step is a call of execute_command that returns at once (a built-in, a failed
\* fork or a background command).
Returns == pc = "exec" /\ pc' = "check"

(***************************************************************************)
(* C1: when execute_command returns from a dir or echo with an output      *)
(* redirect, on whatever exit path, the descriptor table is the one before *)
(* the call: descriptor 1 refers to the same stream, and the saved copy    *)
(* and the target file are closed.                                         *)
(***************************************************************************)
C1_StdoutRestored ==
    (pc = "check" /\ last.kind = "builtin" /\ IsDirEcho(cmd) /\ cmd.output_file # NULL)
        => fds = last.fds0

(***************************************************************************)
(* C2: when the target of the output redirect of dir or echo cannot be     *)
(* opened, execute_command returns Failure, the built-in has not run (no   *)
(* output, no file touched) and the descriptor table is unchanged; the     *)
(* output of an unredirected dir or echo that follows goes to the stream   *)
(* descriptor 1 referred to before the failed call, and nowhere else.      *)
(***************************************************************************)
C2_OpenFailureLeavesStdout ==
    [][ /\ (Returns /\ last'.path = "open_failed")
            => /\ result' = Failure
               /\ ~last'.invoked
               /\ fds' = fds /\ files' = files /\ buf' = buf /\ out' = out
        /\ (Returns /\ last.path = "open_failed" /\ IsDirEcho(cmd) /\ cmd.output_file = NULL
                    /\ result' = Success)
            => /\ fds' = fds
               /\ fds[STDOUT_FILENO] = last.fds0[STDOUT_FILENO]
               /\ Sink(fds, files', out') \o buf'
                    = Sink(fds, files, out) \o buf
                        \o (IF cmd.args[1] = W_echo THEN EchoText(cmd)
                            ELSE Lines(DirEntries(St)))
               /\ \A p \in Paths : fds[STDOUT_FILENO] # FileStream(p) => files'[p] = files[p]
               /\ fds[STDOUT_FILENO].kind # "stdout" => out' = out
      ]_vars

\* An unredirected dir or echo has run right after a dir or echo whose target could
\* not be opened.
C2_Witness ==
    /\ pc = "check"
    /\ last.before = "open_failed"
    /\ last.beforeRc = Failure
    /\ last.path = "ran"
    /\ cmd.output_file = NULL
    /\ result = Success

(***************************************************************************)
(* C3: when a redirected echo returns, the text it wrote (its arguments    *)
(* joined by single spaces, and a newline) is in the target file, after    *)
(* the previous content for >> and in place of it for >, and none of it    *)
(* has gone to the original standard output or is pending for it.          *)
(***************************************************************************)
C3_EchoTextInFile ==
    [][ (Returns /\ cmd.args[1] = W_echo /\ cmd.output_file # NULL /\ last'.path = "ran")
            => /\ files'[cmd.output_file].exists
               /\ files'[cmd.output_file].data
                    = (IF cmd.append_mode # 0 THEN files[cmd.output_file].data ELSE <<>>)
                        \o EchoText(cmd)
               /\ out' = out
               /\ buf' = buf
      ]_vars

(***************************************************************************)
(* C4: execute_command returns ExitRequested if and only if the command    *)
(* name is quit.                                                           *)
(***************************************************************************)
C4_ExitRequestedIffQuit ==
    pc = "check" => /\ (result = ExitRequested) <=> (cmd.args[1] = W_quit)
                    /\ result \in {Success, Failure, ExitRequested}

\* quit with an argument, a redirection and the background flag has been executed.
C4_Witness ==
    /\ pc = "check"
    /\ cmd.args[1] = W_quit
    /\ cmd.argc > 1
    /\ cmd.output_file # NULL
    /\ cmd.background # 0
    /\ result = ExitRequested

(***************************************************************************)
(* C5: the loop of main ends only at the end of the input or on quit;      *)
(* after a command that returned Failure the loop reads the next line.     *)
(***************************************************************************)
C5_LoopEndsOnlyOnEofOrQuit ==
    /\ [](pc = "done" => (eof \/ (result = ExitRequested /\ cmd.args[1] = W_quit)))
    /\ [][(pc = "check" /\ result = Failure) => pc' \in {"check", "read"}]_vars

\* A command has been executed after one that failed.
C5_Witness ==
    /\ pc = "check"
    /\ last.before # ""
    /\ last.beforeRc = Failure

(***************************************************************************)
(* C6 as claimed: every external command whose program cannot be executed  *)
(* returns Failure and leaves the descriptors of the parent unchanged.     *)
(***************************************************************************)
C6_Original ==
    (pc = "check" /\ last.kind = "external" /\ cmd.args[1] \notin Programs)
        => result = Failure /\ fds = last.fds0

(***************************************************************************)
(* C6 amended: every foreground external command whose program cannot be   *)
(* executed returns Failure, leaves the descriptors of the parent          *)
(* unchanged, and the loop does not end on it.                             *)
(***************************************************************************)
C6_ForegroundNotFoundFails ==
    (pc = "check" /\ last.kind = "external" /\ cmd.args[1] \notin Programs /\ cmd.background = 0)
        => result = Failure /\ fds = last.fds0 /\ ~LoopBreaks(result)

\* The parent has waited for a child whose execvp failed.
C6_Witness ==
    /\ pc = "check"
    /\ last.path = "waited"
    /\ cmd.args[1] = W_nosuch
    /\ last.term = "exited"
    /\ last.status = 1
    /\ result = Failure

(***************************************************************************)
(* C7: the wait of a foreground command returns only when the child that   *)
(* was spawned for it has terminated, and the outcome is that child's.     *)
(***************************************************************************)
C7_WaitsForItsChild ==
    [][ (pc = "wait" /\ pc' # "wait")
            => /\ children[pid].state \in Terminated
               /\ last'.child = pid
               /\ last'.term = children[pid].state
               /\ last'.status = children[pid].status
      ]_vars

\* The wait has returned for its child while another child had terminated before.
C7_Witness ==
    /\ pc = "check"
    /\ last.waited
    /\ \E q \in Pids : q # last.child /\ children[q].state \in Terminated

(***************************************************************************)
(* C8: for a foreground external command whose child was spawned the       *)
(* outcome is Success if and only if the wait succeeded and the child      *)
(* exited normally with status 0; otherwise it is Failure.                 *)
(***************************************************************************)
C8_SuccessIffExitZero ==
    (pc = "check" /\ last.kind = "external" /\ last.spawned /\ cmd.background = 0)
        => /\ result \in {Success, Failure}
           /\ (result = Success)
                <=> (last.path = "waited" /\ last.term = "exited" /\ last.status = 0)

\* A foreground child exited with a nonzero status of its own.
C8_Witness ==
    /\ pc = "check"
    /\ last.path = "waited"
    /\ last.term = "exited"
    /\ last.status = 2
    /\ result = Failure

(***************************************************************************)
(* C9: a background command whose child was spawned returns Success in the *)
(* step of the fork, the child not having run yet, and the result stays    *)
(* Success whatever the child does.                                        *)
(***************************************************************************)
C9_BackgroundReturnsAtOnce ==
    /\ [][ (pc = "exec" /\ pc' # "exec" /\ IsExternal(cmd) /\ cmd.background # 0 /\ last'.spawned)
             => /\ pc' = "check"
                /\ result' = Success
                /\ children'[pid'].state = "forked"
         ]_vars
    /\ []((pc = "check" /\ last.path = "background") => result = Success)

\* The parent is about to execute the next command while a background child is
\* still running.
C9_Witness ==
    /\ pc = "exec"
    /\ nread >= 2
    /\ \E p \in Pids : children[p].state \in Live /\ children[p].c.background # 0

(***************************************************************************)
(* Tokens of a line, stated by position: a token is a longest run of       *)
(* characters that are not delimiters, named by the position it starts at. *)
(***************************************************************************)
TokStarts(s) == {i \in 1 .. Len(s) : s[i] \notin Delims /\ (i = 1 \/ s[i - 1] \in Delims)}

\* The token that starts at position i.
TokFrom(s, i) ==
    LET e == CHOOSE j \in i .. Len(s) :
                 (j = Len(s) \/ s[j + 1] \in Delims) /\ \A k \in i .. j : s[k] \notin Delims
    IN  SubSeq(s, i, e)

\* The start of the token before the one that starts at i, 0 when there is none.
PrevStart(s, i) ==
    IF \A k \in 1 .. (i - 1) : s[k] \in Delims THEN 0
    ELSE LET e == CHOOSE k \in 1 .. (i - 1) :
                      s[k] \notin Delims /\ \A m \in (k + 1) .. (i - 1) : s[m] \in Delims
         IN  CHOOSE b \in 1 .. e :
                 (\A m \in b .. e : s[m] \notin Delims) /\ (b = 1 \/ s[b - 1] \in Delims)

ControlTokens == {LT, GT, GTGT, AMP}

RedirOps == {LT, GT, GTGT}

\* The token at i is the target of a redirection: the token before it is a redirection
\* operator that is not itself the target of one.
RECURSIVE Consumed(_, _)
Consumed(s, i) ==
    LET p == PrevStart(s, i)
    IN  p > 0 /\ TokFrom(s, p) \in RedirOps /\ ~Consumed(s, p)

\* The starts of the tokens that are neither control tokens nor redirection targets.
OrdinaryStarts(s) == {i \in TokStarts(s) : TokFrom(s, i) \notin ControlTokens /\ ~Consumed(s, i)}

(***************************************************************************)
(* C10: when parse_command is through with a line, args holds exactly the  *)
(* tokens of the line that are neither "<", ">", ">>", "&" nor the target  *)
(* of a redirection, in the order of the line, up to MAX_ARGS - 1 of them; *)
(* no element of args is a control token.                                  *)
(***************************************************************************)
C10_ArgsAreOrdinaryTokens ==
    pc = "parsed" =>
        LET O == OrdinaryStarts(line)
            rank(i) == Cardinality({j \in O : j <= i})
        IN  /\ cmd.argc = Min(Cardinality(O), MAX_ARGS - 1)
            /\ Len(cmd.args) = cmd.argc
            /\ \A i \in O : rank(i) <= MAX_ARGS - 1 => cmd.args[rank(i)] = TokFrom(line, i)
            /\ \A k \in 1 .. Len(cmd.args) : cmd.args[k] \notin ControlTokens

\* A short line with an argument, a redirection and its target has been parsed.
C10_Witness ==
    /\ pc = "parsed"
    /\ Len(line) <= MaxLineLen
    /\ cmd.argc >= 1
    /\ cmd.output_file # NULL

(***************************************************************************)
(* Redirection operators of a line, by position.                           *)
(***************************************************************************)
\* The start of the token after the one that starts at i, 0 when there is none.
NextStart(s, i) ==
    LET later == {j \in TokStarts(s) : j > i}
    IN  IF later = {} THEN 0 ELSE CHOOSE j \in later : \A k \in later : j <= k

\* The starts of the operators among ops that are not themselves the target of a
\* redirection and that have a following token.
OpStarts(s, ops) ==
    {i \in TokStarts(s) : TokFrom(s, i) \in ops /\ ~Consumed(s, i) /\ NextStart(s, i) # 0}

\* The last position of a nonempty set of positions.
LastOf(S) == CHOOSE i \in S : \A k \in S : k <= i

\* The target of the last operator of S, NULL when S is empty.
LastTarget(s, S) == IF S = {} THEN NULL ELSE TokFrom(s, NextStart(s, LastOf(S)))

(***************************************************************************)
(* C11: when parse_command is through with a line, input_file is the       *)
(* target of the last "<" that has a following token (NULL when there is   *)
(* none), output_file is the target of the last ">" or ">>" that has a     *)
(* following token (NULL when there is none), and append_mode is set       *)
(* exactly when that last output operator is ">>"; an operator without a   *)
(* following token changes nothing.                                        *)
(***************************************************************************)
C11_LastRedirectionWins ==
    pc = "parsed" =>
        LET I == OpStarts(line, {LT})
            O == OpStarts(line, {GT, GTGT})
        IN  /\ cmd.input_file = LastTarget(line, I)
            /\ cmd.output_file = LastTarget(line, O)
            /\ cmd.append_mode = 1 <=> (O # {} /\ TokFrom(line, LastOf(O)) = GTGT)
            /\ cmd.append_mode \in {0, 1}

(***************************************************************************)
(* C12: when parse_command is through with a line, background is set       *)
(* exactly when the line holds a token "&" (one that is not taken as the   *)
(* target of a redirection), wherever in the line it stands.               *)
(***************************************************************************)
C12_BackgroundAnywhere ==
    pc = "parsed" =>
        (cmd.background = 1 <=>
            \E i \in TokStarts(line) : TokFrom(line, i) = AMP /\ ~Consumed(line, i))

(***************************************************************************)
(* C13: a Command that is dispatched has at least one argument;            *)
(* parse_command yields no Command exactly when the line has no token that *)
(* is neither a control token nor a redirection target; and a line of      *)
(* spaces and tabs only, or one that starts with "#", makes the loop go on *)
(* to the next line with nothing run: no built-in, no child, no file       *)
(* opened, created or truncated; that holds for the whole input line, also *)
(* for the characters of it that a first fgets did not take.               *)
(***************************************************************************)
\* A step of the loop that reads a line.
ReadsLine == pc = "read" /\ nread' = nread + 1

BlankLine(l) == \A i \in 1 .. Len(l) : l[i] \in Delims

CommentLine(l) == l # <<>> /\ l[1] = "#"

IsPrefix(a, b) == Len(a) <= Len(b) /\ SubSeq(b, 1, Len(a)) = a

C13_NoEmptyCommand ==
    /\ [](pc \in {"exec", "wait", "check"} => (cmd.argc >= 1 /\ Len(cmd.args) = cmd.argc))
    /\ [][ReadsLine =>
            /\ (~BlankLine(line') /\ ~CommentLine(line')) =>
                   (pc' = "read" <=> OrdinaryStarts(line') = {})
            /\ pc' = "read" =>
                   /\ UNCHANGED <<fds, children, result, last>>
                   /\ \A p \in Paths : /\ files'[p].exists = files[p].exists
                                        /\ IsPrefix(files[p].data, files'[p].data)
            /\ (BlankLine(line') \/ CommentLine(line')) => pc' = "read"
            /\ (stream # <<>> /\ (BlankLine(line) \/ CommentLine(line))) => pc' = "read"]_vars

(***************************************************************************)
(* C14: the Command parse_command leaves for a line depends on that line   *)
(* alone, not on the lines parsed before: it is the Command a first call   *)
(* on that line yields, so two calls on the same line agree whatever was   *)
(* parsed in between; and a redirection or a background flag of an earlier *)
(* line is not in the Command of a line that does not hold it.             *)
(***************************************************************************)
C14_ParseIsStateless ==
    pc = "parsed" =>
        /\ cmd = parse_command(InitCommand, line)
        /\ OpStarts(line, {LT}) = {} => cmd.input_file = NULL
        /\ OpStarts(line, {GT, GTGT}) = {} => (cmd.output_file = NULL /\ cmd.append_mode = 0)
        /\ (\A i \in TokStarts(line) : TokFrom(line, i) # AMP) => cmd.background = 0
        /\ Len(cmd.args) = Cardinality(OrdinaryStarts(line))

\* The line "b" has been parsed by a call that is not the first one, on the static
\* Command an earlier line left.
C14_Witness ==
    /\ pc = "parsed"
    /\ nread >= 1
    /\ line = <<"b">>
    /\ cmd.args = << <<"b">> >>

(***************************************************************************)
(* C15: a call of execute_command on cd, clr, pause, environ or help with  *)
(* an input or an output redirection in the Command leaves the descriptor  *)
(* table as it was (descriptors 0 and 1 in particular) and opens, creates  *)
(* and truncates no file: no file comes to exist and none loses data.      *)
(***************************************************************************)
IgnoresRedirection(c) == c.args[1] \in {W_cd, W_clr, W_pause, W_environ, W_help}

C15_RedirectionIgnored ==
    [][(Returns /\ IgnoresRedirection(cmd) /\ (cmd.input_file # NULL \/ cmd.output_file # NULL)) =>
          /\ fds' = fds
          /\ fds'[STDIN_FILENO] = last'.fds0[STDIN_FILENO]
          /\ fds'[STDOUT_FILENO] = last'.fds0[STDOUT_FILENO]
          /\ \A p \in Paths : /\ files'[p].exists = files[p].exists
                               /\ IsPrefix(files[p].data, files'[p].data)]_vars

\* environ has returned for a Command that names f.txt, and f.txt does not exist.
C15_Witness ==
    /\ pc = "check"
    /\ last.kind = "builtin"
    /\ cmd.args[1] = W_environ
    /\ cmd.output_file = F_TXT
    /\ ~files[F_TXT].exists

(***************************************************************************)
(* C16: a child that still runs the shell's image either replaces the      *)
(* image or exits with a nonzero status (unless a signal ends it from      *)
(* outside); no step of a child touches the state of the read-execute      *)
(* loop, which only the parent runs; and the program is executed only      *)
(* after setup_redirection succeeded: when it fails the child exits with   *)
(* a nonzero status in that step.                                          *)
(***************************************************************************)
ShellImage == {"forked", "ready"}

C16_ChildNeverReturns ==
    /\ [](\A p \in Pids :
            /\ children[p].state = "running" => children[p].setup = "ok"
            /\ children[p].setup = "failed" =>
                   children[p].state \in {"exited", "signaled"}
            /\ (children[p].state = "exited" /\ children[p].setup = "failed") =>
                   children[p].status # 0)
    /\ [][\A p \in Pids :
            (children[p].state \in ShellImage /\ children'[p] # children[p]) =>
                /\ \/ children'[p].state \in {"ready", "running", "signaled"}
                   \/ children'[p].state = "exited" /\ children'[p].status # 0
                /\ children[p].state = "ready" => children'[p].state # "ready"
                /\ UNCHANGED <<pc, line, cmd, result, nread, eof, last, fds, buf>>]_vars

\* A child whose input file could not be opened has exited, with status 1, and
\* the output file it names was not created.
C16_Witness ==
    \E p \in Pids :
        /\ children[p].state = "exited"
        /\ children[p].setup = "failed"
        /\ children[p].status = 1
        /\ ~files[F_TXT].exists

(***************************************************************************)
(* C17: setup_redirection on a Command that names an input and an output   *)
(* file.  When the input file cannot be opened it returns -1 with no file  *)
(* created or truncated and the descriptor table, standard output with    *)
(* it, as it was.  When the input file opens, standard input is bound to   *)
(* it before the output file is touched: it is bound also when the output  *)
(* file then cannot be opened, and when binding it fails the output file   *)
(* is not touched.  A child whose input file does not exist exits with the *)
(* files as they were.                                                     *)
(***************************************************************************)
NamesBoth(c) == c.input_file # NULL /\ c.output_file # NULL

C17_InputBeforeOutput ==
    /\ [](\A p \in Pids :
            (children[p].state = "forked" /\ NamesBoth(children[p].c)) =>
                \A e \in EnvSetup :
                    LET st == ChildSt(p)
                        c == children[p].c
                        r == setup_redirection(st, c, e)
                        opens == e.openin /\ Exists(st, c.input_file)
                    IN  /\ ~opens => (r.rc = -1 /\ r.st.files = st.files /\ r.st.fds = st.fds)
                        /\ (opens /\ ~e.dup2in) =>
                               /\ r.rc = -1
                               /\ r.st.files = st.files
                               /\ r.st.fds[STDOUT_FILENO] = st.fds[STDOUT_FILENO]
                        /\ (opens /\ e.dup2in) =>
                               r.st.fds[STDIN_FILENO] = FileStream(c.input_file)
                        /\ (opens /\ e.dup2in /\ ~e.open) =>
                               (r.rc = -1 /\ r.st.files = st.files))
    /\ [][\A p \in Pids :
            (/\ children[p].state = "forked"
             /\ NamesBoth(children[p].c)
             /\ ~Exists(ChildSt(p), children[p].c.input_file)
             /\ children'[p].state = "exited") =>
                (children'[p].setup = "failed" /\ children'[p].status = 1 /\ files' = files)]_vars

\* The parent waits for a child of `prog < f.txt > f.txt` that has exited because
\* f.txt could not be opened for reading, and f.txt has not been created.
C17_Witness ==
    /\ pc = "wait"
    /\ NamesBoth(cmd)
    /\ cmd.input_file = cmd.output_file
    /\ children[pid].state = "exited"
    /\ children[pid].setup = "failed"
    /\ ~files[cmd.output_file].exists

(***************************************************************************)
(* C18: a call of execute_external goes from the fork either to the return *)
(* for a failed fork, to the return for a background command, or to the    *)
(* wait, and from the wait to the return with the child's status or with   *)
(* the wait failed; at its return it is in exactly one of these four       *)
(* states.  A failed fork returns Failure with no child created, no file   *)
(* and no descriptor touched and no wait made.  A call that waits for a    *)
(* child that has terminated returns.                                      *)
(***************************************************************************)
TerminalPaths == {"fork_failed", "background", "waited", "wait_failed"}

C18_ExternalStateMachine ==
    /\ []((pc = "check" /\ last.kind = "external") => last.path \in TerminalPaths)
    /\ [](pc = "wait" => (last.kind = "external" /\ last.path = "waiting" /\ last.spawned))
    /\ [][(pc = "exec" /\ pc' # "exec") =>
            \/ pc' = "check" /\ last'.path = "fork_failed" /\ ~last'.spawned
            \/ pc' = "check" /\ last'.path = "background" /\ last'.spawned /\ ~last'.waited
            \/ pc' = "wait" /\ last'.path = "waiting" /\ last'.spawned]_vars
    /\ [][(pc = "wait" /\ pc' # "wait") =>
            /\ pc' = "check"
            /\ last'.path \in {"waited", "wait_failed"}
            /\ last'.waited
            /\ last'.term \in Terminated]_vars
    /\ [][(pc = "exec" /\ pc' = "check" /\ last'.path = "fork_failed") =>
            /\ result' = Failure
            /\ ~last'.waited
            /\ UNCHANGED <<children, files, fds, buf, out>>]_vars
    /\ (pc = "wait" /\ children[pid].state \in Terminated) ~> (pc = "check")

\* A call has returned for a failed fork while no child exists.
C18_Witness ==
    /\ pc = "check"
    /\ last.kind = "external"
    /\ last.path = "fork_failed"
    /\ result = Failure
    /\ \A p \in Pids : children[p].state = "none"

(***************************************************************************)
(* C19: at every point of parse_command argc is at most MAX_ARGS - 1, so   *)
(* each argument and the NULL that ends args are stored inside the         *)
(* MAX_ARGS entries of args; when parse_command is through, args holds the *)
(* first MAX_ARGS - 1 ordinary tokens of the line, in order, and the       *)
(* ordinary tokens after them are dropped, with a Command returned all the *)
(* same.                                                                   *)
(***************************************************************************)
\* The k-th position of a set of positions.
Kth(S, k) == CHOOSE i \in S : Cardinality({j \in S : j <= i}) = k

C19_ArgumentBound ==
    /\ cmd.argc \in 0 .. (MAX_ARGS - 1)
    /\ Len(cmd.args) + 1 <= MAX_ARGS
    /\ pc = "parsed" =>
           LET O == OrdinaryStarts(line)
           IN  /\ Len(cmd.args) = cmd.argc
               /\ Cardinality(O) <= MAX_ARGS - 1 => cmd.argc = Cardinality(O)
               /\ Cardinality(O) > MAX_ARGS - 1 =>
                      (cmd.argc = MAX_ARGS - 1 /\ ~ParseReturnsNull(cmd))
               /\ \A k \in 1 .. cmd.argc : cmd.args[k] = TokFrom(line, Kth(O, k))

\* A line with more than MAX_ARGS - 1 ordinary tokens has been parsed.
C19_Witness ==
    /\ pc = "parsed"
    /\ Cardinality(OrdinaryStarts(line)) > MAX_ARGS - 1
    /\ cmd.argc = MAX_ARGS - 1

(***************************************************************************)
(* C20: of an input line longer than MAX_LINE - 1 characters the first     *)
(* MAX_LINE - 1 make the line that is tokenized, and the characters after  *)
(* them are dropped: what a read left of a line never becomes a Command.   *)
(***************************************************************************)
C20_OverlongLineTruncated ==
    /\ [][ReadsLine => Len(line') <= MAX_LINE - 1]_vars
    /\ [][(ReadsLine /\ stream # <<>>) => (pc' = "read" /\ stream' = <<>>)]_vars

====
